---- MODULE Spec2Model ----
(***************************************************************************)
(* VoiceNotes (src/main.ts): a recording session toggled by the user, the  *)
(* fragments a MediaRecorder delivers, and the processing of a stopped     *)
(* recording (file save, optional transcription).                          *)
(*                                                                         *)
(* Execution is a single JavaScript event loop: every action below is one  *)
(* run-to-completion segment of a handler, from its entry or from the      *)
(* resumption of an await to its next await or its end.                    *)
(*                                                                         *)
(* Every call of startRecording that reaches getUserMedia gets an index    *)
(* i in 1..MaxStarts.  The stream that call obtains, the RecordingState    *)
(* object it creates, the MediaRecorder it constructs and the              *)
(* processRecording run that recorder's onstop starts all carry index i.   *)
(* Index 0 is the RecordingState object made at plugin construction.       *)
(* Wall-clock time (startTime, the duration in the label, the file name)   *)
(* is left out: the status label is "rec" or "idle".  The host's plugin    *)
(* lifecycle (onload, onunload) is left out as well: Init is the state     *)
(* after onload.                                                           *)
(***************************************************************************)
EXTENDS Integers, Sequences, FiniteSets, TLC

\* ---------------------------------------------------------------- bounds
\* startRecording calls that reach getUserMedia
MaxStarts == 2
\* non-empty fragments one recorder delivers (the final one included)
MaxFrags == 1
\* texts insertTextToEditor inserts one after the other
MaxInserts == 2

Calls == 1..MaxStarts
Objs == 0..MaxStarts

\* ------------------------------------------------------------ environment
\* formatOptions, in the order startRecording tries them
formatOptions ==
    << "audio/webm;codecs=opus", "audio/webm", "audio/mpeg", "audio/wav",
       "audio/ogg;codecs=opus" >>

\* What MediaRecorder.isTypeSupported may accept on the host: the formats of
\* a Chromium or Firefox, or none of the five formats (a WebKit that records
\* audio/mp4 only).
SupportedChoices ==
    { {"audio/webm;codecs=opus", "audio/webm", "audio/ogg;codecs=opus"},
      {} }

\* Values of the API key text field
Keys == {"", "sk-1"}

\* What workspace.activeLeaf can be when insertTextToEditor looks at it
Views == {"noleaf", "nonmarkdown", "noeditor", "markdown"}

\* The panes the user switches between during a recording session.  The
\* three refusals of insertTextToEditor differ in the text of the notice
\* only, so one of them stands for all three here.
SessionViews == {"noleaf", "markdown"}

\* An error without a status (a network failure, or an Error thrown by the code)
NoStatus == 0

\* Errors requestUrl can raise: HTTP statuses with the host's message, and
\* an error object that carries neither a status nor a message.
RequestErrors ==
    { [status |-> 401, message |-> "Request failed, status 401"],
      [status |-> 403, message |-> "Request failed, status 403"],
      [status |-> 429, message |-> "Request failed, status 429"],
      [status |-> 500, message |-> "Request failed, status 500"],
      [status |-> NoStatus, message |-> "net::ERR_FAILED"],
      [status |-> NoStatus, message |-> ""] }

\* The error drawn during a recording session; SpecRequest takes the catch
\* block of transcribeAudio through all of RequestErrors
SessionErrors == {e \in RequestErrors : e.status = 500}

\* response.json.text of a successful request, as a sequence of characters
\* (the empty one stands for a missing text too)
ResponseTexts == { << >>, << " ", " " >>, << " ", "h", " " >> }

\* the error a rejected audioBlob.arrayBuffer() carries
BlobError == [status |-> NoStatus, message |-> "blob unreadable"]

NoError == [status |-> NoStatus, message |-> "none"]

VARIABLES
    settings,    \* VoiceNotesSettings
    supported,   \* the mime types MediaRecorder.isTypeSupported accepts
    cur,         \* the RecordingState object this.recordingState refers to
    rs,          \* the RecordingState objects
    statusBar,   \* text of statusBarItem: "idle" or "rec"
    timers,      \* pending setTimeout callbacks of updateStatusBar
    nstarts,     \* startRecording calls that reached getUserMedia
    call,        \* per startRecording call: position and what it did
    streamLive,  \* per stream: its tracks are live
    recorder,    \* per MediaRecorder: "none", "recording", "stopping", "inactive"
    emitted,     \* per recorder: the non-empty fragments it delivered, in order
    run,         \* per recorder: the processRecording run its onstop started
    vault,       \* runs whose audio file was created
    activeLeaf,  \* workspace.activeLeaf: one of Views
    doc,         \* the editor's document: its lines, each a sequence of characters
    cursor,      \* the editor's cursor: [line, ch], both counted from 0
    base,        \* document and cursor before the first insertTextToEditor call
    chain,       \* the texts inserted since then, in call order
    outcome      \* what the last insertTextToEditor call did

\* The editor as insertTextToEditor reads and writes it, and the record kept
\* of its calls
editorVars == << activeLeaf, doc, cursor, base, chain, outcome >>

vars ==
    << settings, supported, cur, rs, statusBar, timers, nstarts,
       call, streamLive, recorder, emitted, run, vault, editorVars >>

\* the variables of the recording session
sessionVars ==
    << settings, supported, cur, rs, statusBar, timers, nstarts,
       call, streamLive, recorder, emitted, run, vault >>

\* ------------------------------------------------------------------ state
\* class RecordingState: the field initialisers
RecordingState ==
    [ isRecording |-> FALSE, mediaRecorder |-> FALSE, stream |-> FALSE,
      audioChunks |-> << >>, mimeType |-> "audio/webm" ]

NoCall == [pc |-> "unused", micRequests |-> 0, micNotices |-> 0]

NoRun ==
    [ pc |-> "none", blob |-> << >>, type |-> "", trace |-> << >>,
      reqKey |-> "", error |-> NoError, txNotice |-> "", cleared |-> << >> ]

\* The state after onload.  loadSettings merges DEFAULT_SETTINGS with the
\* stored data, which may hold any key and either value of the toggle.
Init ==
    /\ settings \in [openaiApiKey : Keys, enableTranscription : BOOLEAN]
    /\ supported \in SupportedChoices
    /\ cur = 0
    /\ rs = [o \in Objs |-> RecordingState]
    /\ statusBar = "idle"
    /\ timers = 0
    /\ nstarts = 0
    /\ call = [i \in Calls |-> NoCall]
    /\ streamLive = [i \in Calls |-> FALSE]
    /\ recorder = [i \in Calls |-> "none"]
    /\ emitted = [i \in Calls |-> << >>]
    /\ run = [i \in Calls |-> NoRun]
    /\ vault = {}
    /\ activeLeaf = "noleaf"
    /\ doc = << << >> >>
    /\ cursor = [line |-> 0, ch |-> 0]
    /\ base = [doc |-> doc, cursor |-> cursor]
    /\ chain = << >>
    /\ outcome = "none"

\* ---------------------------------------------------------------- helpers
RECURSIVE FirstSupported(_)
\* the loop over formatOptions in startRecording, from position k on;
\* the initial value of selectedFormat when no format is supported
FirstSupported(k) ==
    IF k > Len(formatOptions) THEN "audio/webm"
    ELSE IF formatOptions[k] \in supported THEN formatOptions[k]
    ELSE FirstSupported(k + 1)

selectedFormat == FirstSupported(1)

\* ------------------------------------------------------- recording session
\* stopRecording, past its guard: clear the flag, stop the recorder (stop()
\* on a recorder that is not recording does nothing), stop the tracks of the
\* stream, set the idle label.  The recorder's final fragment and its onstop
\* come later, in the task stop() queues (RecorderStopTask).
stopRecording ==
    /\ rs' = [rs EXCEPT ![cur].isRecording = FALSE]
    /\ recorder' =
         IF rs[cur].mediaRecorder /\ recorder[cur] = "recording"
         THEN [recorder EXCEPT ![cur] = "stopping"]
         ELSE recorder
    /\ streamLive' =
         IF rs[cur].stream THEN [streamLive EXCEPT ![cur] = FALSE] ELSE streamLive
    /\ statusBar' = "idle"

\* startRecording, from its entry (the flag is clear) to the await of
\* getUserMedia: nothing of the plugin's state changes, the request is pending.
startRecording ==
    /\ nstarts < MaxStarts
    /\ nstarts' = nstarts + 1
    /\ call' = [call EXCEPT ![nstarts + 1] =
                  [pc |-> "awaitingMedia", micRequests |-> 1, micNotices |-> 0]]

\* toggleRecording: the status bar click, the ribbon icon, the command
ToggleRecording ==
    /\ IF rs[cur].isRecording
       THEN /\ stopRecording
            /\ UNCHANGED << nstarts, call >>
       ELSE /\ startRecording
            /\ UNCHANGED << rs, recorder, streamLive, statusBar >>
    /\ UNCHANGED << settings, supported, cur, timers, emitted, run, vault >>
    /\ UNCHANGED editorVars

\* GetUserMediaRejected with getUserMedia requested once more after a rejection
GetUserMediaRejected_retry(i) ==
    /\ call[i].pc = "awaitingMedia"
    /\ call[i].micRequests < 2
    /\ call' = [call EXCEPT ![i].micRequests = @ + 1, ![i].micNotices = @ + 1]
    /\ UNCHANGED << settings, supported, cur, rs, statusBar, timers,
                    nstarts, streamLive, recorder, emitted, run, vault >>
    /\ UNCHANGED editorVars

\* getUserMedia rejects: the catch block of startRecording shows a notice
GetUserMediaRejected(i) ==
    /\ call[i].pc = "awaitingMedia"
    /\ call' = [call EXCEPT ![i].pc = "rejected", ![i].micNotices = @ + 1]
    /\ UNCHANGED << settings, supported, cur, rs, statusBar, timers,
                    nstarts, streamLive, recorder, emitted, run, vault >>
    /\ UNCHANGED editorVars

\* getUserMedia resolves with stream i: startRecording runs from line 137 to
\* its end.  new MediaRecorder throws NotSupportedError when the selected mime
\* type is not supported; recorder.start may throw (startOk = FALSE).  Either
\* way the catch block only shows a notice.
GetUserMediaResolved(i, startOk) ==
    /\ call[i].pc = "awaitingMedia"
    /\ cur' = i
    /\ streamLive' = [streamLive EXCEPT ![i] = TRUE]
    /\ LET ctorOk == selectedFormat \in supported
           fresh == [RecordingState EXCEPT !.isRecording = TRUE, !.stream = TRUE,
                                           !.mimeType = selectedFormat]
       IN  /\ rs' = [rs EXCEPT ![i] = [fresh EXCEPT !.mediaRecorder = ctorOk]]
           /\ recorder' = [recorder EXCEPT ![i] =
                             IF ctorOk /\ startOk THEN "recording"
                             ELSE IF ctorOk THEN "inactive" ELSE "none"]
           /\ call' = [call EXCEPT
                         ![i].pc = IF ctorOk /\ startOk THEN "started"
                                   ELSE IF ctorOk THEN "startThrew" ELSE "ctorThrew",
                         ![i].micNotices = IF ctorOk /\ startOk THEN @ ELSE @ + 1]
           \* updateStatusBar: the flag is set, so the label and one timer
           /\ statusBar' = IF ctorOk /\ startOk THEN "rec" ELSE statusBar
           /\ timers' = IF ctorOk /\ startOk THEN timers + 1 ELSE timers
    /\ UNCHANGED << settings, supported, nstarts, emitted, run, vault >>
    /\ UNCHANGED editorVars

\* the setTimeout callback of updateStatusBar: refresh the label and
\* schedule the next callback while the flag is set
TimerFired ==
    /\ timers > 0
    /\ IF rs[cur].isRecording
       THEN /\ statusBar' = "rec"
            /\ timers' = timers
       ELSE /\ statusBar' = statusBar
            /\ timers' = timers - 1
    /\ UNCHANGED << settings, supported, cur, rs, nstarts, call,
                    streamLive, recorder, emitted, run, vault >>
    /\ UNCHANGED editorVars

\* ondataavailable: a non-empty fragment goes to this.recordingState.audioChunks
ondataavailable(state, i, size) ==
    IF size > 0
    THEN [state EXCEPT ![cur].audioChunks = Append(@, << i, Len(emitted[i]) + 1 >>)]
    ELSE state

\* a timeslice (start(1000)) of recorder i ends: dataavailable
Fragment(i, size) ==
    /\ recorder[i] = "recording"
    /\ size > 0 => Len(emitted[i]) < MaxFrags
    /\ rs' = ondataavailable(rs, i, size)
    /\ emitted' = IF size > 0
                  THEN [emitted EXCEPT ![i] = Append(@, << i, Len(@) + 1 >>)]
                  ELSE emitted
    /\ UNCHANGED << settings, supported, cur, statusBar, timers,
                    nstarts, call, streamLive, recorder, run, vault >>
    /\ UNCHANGED editorVars

\* the settings tab: onChange of the key field and of the toggle
SetApiKey(value) ==
    /\ settings' = [settings EXCEPT !.openaiApiKey = value]
    /\ UNCHANGED << supported, cur, rs, statusBar, timers, nstarts,
                    call, streamLive, recorder, emitted, run, vault >>
    /\ UNCHANGED editorVars

SetEnableTranscription(value) ==
    /\ settings' = [settings EXCEPT !.enableTranscription = value]
    /\ UNCHANGED << supported, cur, rs, statusBar, timers, nstarts,
                    call, streamLive, recorder, emitted, run, vault >>
    /\ UNCHANGED editorVars


\* ------------------------------------------------------------- sequences
RECURSIVE Count(_, _)
\* occurrences of x in the sequence t
Count(t, x) ==
    IF t = << >> THEN 0
    ELSE (IF Head(t) = x THEN 1 ELSE 0) + Count(Tail(t), x)

Has(t, x) == \E k \in 1..Len(t) : t[k] = x

\* every x of t comes before every y of t
Before(t, x, y) ==
    \A k, m \in 1..Len(t) : (t[k] = x /\ t[m] = y) => k < m

\* ----------------------------------------------------------------- editor
\* insertTextToEditor on the document itself.  Texts and lines are sequences
\* of characters; "\n" is the line break.  The editor is the host's
\* CodeMirror wrapper: getCursor, replaceRange(text, pos), setCursor(line, ch).
NL == "\n"

\* Texts handed to insertTextToEditor: blank ones, one-line ones with and
\* without surrounding white space, and texts of the two shapes
\* processRecording builds (heading, line break, body, two line breaks).
Texts ==
    { << >>, << " ", NL >>,
      << "a" >>, << " ", "a", " " >>,
      << "a", NL, "b", NL, NL >>,
      << NL, "a", " ", "b" >>,
      << "a", NL, NL, "b", " " >> }

\* Documents the editor may hold when the first call arrives
InitDocs ==
    { << << >> >>,
      << << "x", "y" >> >>,
      << << "x" >>, << "y", "z" >> >> }

\* the positions of document d
Positions(d) ==
    UNION { { [line |-> l, ch |-> c] : c \in 0..Len(d[l + 1]) } : l \in 0..(Len(d) - 1) }

\* white space String.prototype.trim removes, among the characters of Texts
IsSpace(c) == c \in {" ", NL}

RECURSIVE TrimStart(_)
TrimStart(t) ==
    IF t # << >> /\ IsSpace(Head(t)) THEN TrimStart(Tail(t)) ELSE t

RECURSIVE TrimEnd(_)
TrimEnd(t) ==
    IF t # << >> /\ IsSpace(t[Len(t)]) THEN TrimEnd(SubSeq(t, 1, Len(t) - 1)) ELSE t

\* String.prototype.trim
trim(t) == TrimEnd(TrimStart(t))

RECURSIVE split(_)
\* String.prototype.split('\n'): the pieces between the line breaks
split(t) ==
    IF \A k \in 1..Len(t) : t[k] # NL THEN << t >>
    ELSE LET k == CHOOSE n \in 1..Len(t) :
                     t[n] = NL /\ \A m \in 1..(n - 1) : t[m] # NL
         IN  << SubSeq(t, 1, k - 1) >> \o split(SubSeq(t, k + 1, Len(t)))

\* editor.replaceRange(text, pos): text goes in at pos; its line breaks split
\* the line
replaceRange(d, text, pos) ==
    LET line == d[pos.line + 1]
        before == SubSeq(line, 1, pos.ch)
        after == SubSeq(line, pos.ch + 1, Len(line))
        parts == split(text)
        n == Len(parts)
        new == IF n = 1 THEN << before \o parts[1] \o after >>
               ELSE << before \o parts[1] >> \o SubSeq(parts, 2, n - 1)
                    \o << parts[n] \o after >>
    IN  SubSeq(d, 1, pos.line) \o new \o SubSeq(d, pos.line + 2, Len(d))

Clamp(x, lo, hi) == IF x < lo THEN lo ELSE IF x > hi THEN hi ELSE x

\* editor.setCursor(line, ch): the position, clipped to the document
setCursor(d, line, ch) ==
    LET l == Clamp(line, 0, Len(d) - 1)
    IN  [line |-> l, ch |-> Clamp(ch, 0, Len(d[l + 1]))]

\* insertTextToEditor with the cursor always moved down one line
lineAfterInsert_one(pos, textToInsert) == pos.line + 1

\* the line insertTextToEditor passes to setCursor (line 402)
lineAfterInsert(pos, textToInsert) == pos.line + Len(split(textToInsert)) - 1

\* --------------------------------------------------- processing a recording
\* A run's trace lists, in order, the external calls and user-visible effects
\* of one processRecording call:
\*   "emptyNotice"                      Notice('Recording data is empty')
\*   "createBinary"                     vault.createBinary is called (line 275)
\*   "saved" / "saveFailed"             it resolved / it rejected
\*                                      (a rejected arrayBuffer leaves neither)
\*   "saveFailedNotice"                 Notice('Failed to save audio file: ...')
\*   "insertLink"                       the audio link went into the editor
\*   "insertRefusedNotice"              a notice of insertTextToEditor
\*   "transcribingNotice"               Notice('Transcribing...')
\*   "requestUrl"                       the transcription request is sent
\*   "response" / "requestFailed"       it resolved / it rejected
\*   "insertTranscription"              the transcription went into the editor
\*   "completedNotice"                  Notice('Transcription completed')
\*   "txFailedNotice"                   Notice('Transcription failed: ...')
\* the text processRecording inserts after a save (line 228): "#" stands for
\* the heading '### Voice Note', "L" for the link
linkText == << "#", NL, "L", NL, NL >>

\* the text processRecording inserts for a transcription t (line 237): "T"
\* stands for the heading '**Transcription:**'
transcriptionText(t) == << "T", NL >> \o t \o << NL, NL >>

\* insertTextToEditor(text) on the editor: blank text is dropped silently
\* (outcome "blank"); without an active leaf, a Markdown view or an editor a
\* notice is shown ("refusedNotice"); otherwise the trimmed text and a line
\* break go in at the cursor and the cursor moves behind them ("inserted")
insertTextToEditor(text) ==
    /\ IF trim(text) = << >>
       THEN /\ outcome' = "blank"
            /\ UNCHANGED << doc, cursor, chain >>
       ELSE IF activeLeaf = "noleaf"
       THEN /\ outcome' = "refusedNotice"
            /\ UNCHANGED << doc, cursor, chain >>
       ELSE IF activeLeaf = "nonmarkdown"
       THEN /\ outcome' = "refusedNotice"
            /\ UNCHANGED << doc, cursor, chain >>
       ELSE IF activeLeaf = "noeditor"
       THEN /\ outcome' = "refusedNotice"
            /\ UNCHANGED << doc, cursor, chain >>
       ELSE LET textToInsert == Append(trim(text), NL)
            IN  /\ doc' = replaceRange(doc, textToInsert, cursor)
                /\ cursor' = setCursor(doc', lineAfterInsert(cursor, textToInsert), 0)
                /\ chain' = Append(chain, text)
                /\ outcome' = "inserted"
    /\ UNCHANGED << activeLeaf, base >>

\* what a call of insertTextToEditor(text) leaves in the trace of the run
\* that made it
insertTrace(trace, text, what) ==
    IF trim(text) = << >> THEN trace
    ELSE IF activeLeaf # "markdown" THEN Append(trace, "insertRefusedNotice")
    ELSE Append(trace, what)

\* errorMessage without its branch for status 429
errorMessage_no429(error) ==
    IF error.status = 401 THEN "Invalid API Key or unauthorized"
    ELSE IF error.status = 403
         THEN "API access denied, please check API Key permissions"
    ELSE IF error.message # "" THEN error.message
    ELSE "Transcription failed"

\* the catch block of transcribeAudio: the message of the error it rethrows
errorMessage(error) ==
    IF error.status = 401 THEN "Invalid API Key or unauthorized"
    ELSE IF error.status = 429
         THEN "API request rate limit exceeded, please try again later"
    ELSE IF error.status = 403
         THEN "API access denied, please check API Key permissions"
    ELSE IF error.message # "" THEN error.message
    ELSE "Transcription failed"

\* processRecording line 247: this.recordingState.audioChunks = []
cleanUp(state) == [state EXCEPT ![cur].audioChunks = << >>]

\* The task that recorder.stop() queued: the final dataavailable (size 0 or
\* not), then onstop, which calls processRecording.  processRecording runs to
\* its return on an empty buffer, or into saveAudioFile up to its first
\* await, audioBlob.arrayBuffer() (line 274).
RecorderStopTask(i, size) ==
    /\ recorder[i] = "stopping"
    /\ size > 0 => Len(emitted[i]) < MaxFrags
    /\ recorder' = [recorder EXCEPT ![i] = "inactive"]
    /\ emitted' = IF size > 0
                  THEN [emitted EXCEPT ![i] = Append(@, << i, Len(@) + 1 >>)]
                  ELSE emitted
    /\ rs' = ondataavailable(rs, i, size)
    /\ LET chunks == rs'[cur].audioChunks
       IN  run' = [run EXCEPT ![i] =
                     IF Len(chunks) = 0
                     THEN [NoRun EXCEPT !.pc = "done", !.trace = << "emptyNotice" >>]
                     ELSE [NoRun EXCEPT !.pc = "saving", !.blob = chunks,
                                        !.type = rs'[cur].mimeType]]
    /\ UNCHANGED << settings, supported, cur, statusBar, timers,
                    nstarts, call, streamLive, vault >>
    /\ UNCHANGED editorVars

\* processRecording lines 231-235, after the save step: the settings decide
\* whether transcribeAudio is entered
transcriptionWanted == settings.enableTranscription /\ settings.openaiApiKey # ""

\* SaveFinished with the transcription request issued while createBinary is
\* still pending (saveAudioFile called without await)
SaveFinished_unawaited(i, ok) ==
    /\ run[i].pc = "saving"
    /\ Has(run[i].trace, "createBinary")
    /\ vault' = IF ok THEN vault \cup {i} ELSE vault
    /\ IF ok THEN insertTextToEditor(linkText) ELSE UNCHANGED editorVars
    /\ LET t1 == IF transcriptionWanted
                 THEN run[i].trace \o << "transcribingNotice", "requestUrl" >>
                 ELSE run[i].trace
           t2 == IF ok THEN insertTrace(Append(t1, "saved"), linkText, "insertLink")
                 ELSE Append(Append(t1, "saveFailed"), "saveFailedNotice")
       IN  IF transcriptionWanted
           THEN /\ run' = [run EXCEPT ![i].pc = "requesting", ![i].trace = t2,
                                      ![i].reqKey = settings.openaiApiKey]
                /\ rs' = rs
           ELSE /\ run' = [run EXCEPT ![i].pc = "done", ![i].trace = t2,
                                      ![i].cleared = rs[cur].audioChunks]
                /\ rs' = cleanUp(rs)
    /\ UNCHANGED << settings, supported, cur, statusBar, timers,
                    nstarts, call, streamLive, recorder, emitted >>

\* SaveFinished with processRecording returning when the save failed
SaveFinished_skipOnFail(i, ok) ==
    /\ run[i].pc = "saving"
    /\ Has(run[i].trace, "createBinary")
    /\ vault' = IF ok THEN vault \cup {i} ELSE vault
    /\ IF ok THEN insertTextToEditor(linkText) ELSE UNCHANGED editorVars
    /\ LET t2 == IF ok THEN insertTrace(Append(run[i].trace, "saved"),
                                        linkText, "insertLink")
                 ELSE Append(Append(run[i].trace, "saveFailed"), "saveFailedNotice")
       IN  IF ok /\ transcriptionWanted
           THEN /\ run' = [run EXCEPT ![i].pc = "encoding",
                                      ![i].trace = Append(t2, "transcribingNotice")]
                /\ rs' = rs
           ELSE /\ run' = [run EXCEPT ![i].pc = "done", ![i].trace = t2,
                                      ![i].cleared = rs[cur].audioChunks]
                /\ rs' = cleanUp(rs)
    /\ UNCHANGED << settings, supported, cur, statusBar, timers,
                    nstarts, call, streamLive, recorder, emitted >>

\* processRecording from the return of saveAudioFile (line 227) on, t being
\* the run's trace then: either transcribeAudio runs up to its await of
\* arrayBuffer (line 303), or the run ends with the clean-up (line 247).
afterSave(i, t) ==
    IF transcriptionWanted
    THEN /\ run' = [run EXCEPT ![i].pc = "encoding",
                               ![i].trace = Append(t, "transcribingNotice")]
         /\ rs' = rs
    ELSE /\ run' = [run EXCEPT ![i].pc = "done", ![i].trace = t,
                               ![i].cleared = rs[cur].audioChunks]
         /\ rs' = cleanUp(rs)

\* audioBlob.arrayBuffer() of saveAudioFile (line 274) settles.  Resolved
\* (ok): vault.createBinary is called and awaited (line 275).  Rejected: the
\* catch of saveAudioFile shows its notice and returns null, createBinary is
\* never called, and processRecording goes on without a link.
ArrayBufferSettled(i, ok) ==
    /\ run[i].pc = "saving"
    /\ ~Has(run[i].trace, "createBinary")
    /\ IF ok
       THEN /\ run' = [run EXCEPT ![i].trace = Append(@, "createBinary")]
            /\ rs' = rs
       ELSE afterSave(i, Append(run[i].trace, "saveFailedNotice"))
    /\ UNCHANGED << settings, supported, cur, statusBar, timers,
                    nstarts, call, streamLive, recorder, emitted, vault >>
    /\ UNCHANGED editorVars

\* vault.createBinary settles (ok: the file was created) and saveAudioFile
\* returns the link or, from its catch, null after a notice; processRecording
\* calls insertTextToEditor with the link after a successful save (line 228)
\* and goes on.
SaveFinished(i, ok) ==
    /\ run[i].pc = "saving"
    /\ Has(run[i].trace, "createBinary")
    /\ vault' = IF ok THEN vault \cup {i} ELSE vault
    /\ IF ok THEN insertTextToEditor(linkText) ELSE UNCHANGED editorVars
    /\ afterSave(i, IF ok THEN insertTrace(Append(run[i].trace, "saved"),
                                           linkText, "insertLink")
                    ELSE Append(Append(run[i].trace, "saveFailed"), "saveFailedNotice"))
    /\ UNCHANGED << settings, supported, cur, statusBar, timers,
                    nstarts, call, streamLive, recorder, emitted >>

\* audioBlob.arrayBuffer() of transcribeAudio (line 303) resolves: the
\* multipart body is built and requestUrl is called with the key the settings
\* hold now
RequestSent(i) ==
    /\ run[i].pc = "encoding"
    /\ run' = [run EXCEPT ![i].pc = "requesting",
                          ![i].reqKey = settings.openaiApiKey,
                          ![i].trace = Append(@, "requestUrl")]
    /\ UNCHANGED << settings, supported, cur, rs, statusBar, timers,
                    nstarts, call, streamLive, recorder, emitted, vault >>
    /\ UNCHANGED editorVars

\* audioBlob.arrayBuffer() of transcribeAudio (line 303) rejects.  The await
\* lies before the try of line 339, so the error leaves transcribeAudio as it
\* is: the catch of processRecording shows its message in a notice and no
\* request is made.  Then the clean-up.
EncodingFailed(i) ==
    /\ run[i].pc = "encoding"
    /\ run' = [run EXCEPT ![i].pc = "done",
                          ![i].cleared = rs[cur].audioChunks,
                          ![i].txNotice = BlobError.message,
                          ![i].trace = Append(@, "txFailedNotice")]
    /\ rs' = cleanUp(rs)
    /\ UNCHANGED << settings, supported, cur, statusBar, timers,
                    nstarts, call, streamLive, recorder, emitted, vault >>
    /\ UNCHANGED editorVars

\* requestUrl resolves with response.json.text = text: the trimmed text is
\* returned and, when not empty, handed to insertTextToEditor (line 237); a
\* response without text raises 'Invalid transcription result format' inside
\* the try of transcribeAudio.  Then the clean-up.
RequestResolved(i, text) ==
    /\ run[i].pc = "requesting"
    /\ LET invalid == [status |-> NoStatus,
                       message |-> "Invalid transcription result format"]
           t1 == Append(run[i].trace, "response")
           transcription == trim(text)
       IN  IF text = << >>
           THEN /\ run' = [run EXCEPT ![i] =
                            [@ EXCEPT !.pc = "done", !.cleared = rs[cur].audioChunks,
                                      !.error = invalid,
                                      !.txNotice = errorMessage(invalid),
                                      !.trace = Append(t1, "txFailedNotice")]]
                /\ UNCHANGED editorVars
           ELSE IF transcription = << >>
           THEN /\ run' = [run EXCEPT ![i] =
                            [@ EXCEPT !.pc = "done", !.cleared = rs[cur].audioChunks,
                                      !.trace = t1]]
                /\ UNCHANGED editorVars
           ELSE /\ run' = [run EXCEPT ![i] =
                            [@ EXCEPT !.pc = "done", !.cleared = rs[cur].audioChunks,
                                      !.trace = Append(
                                         insertTrace(t1, transcriptionText(transcription),
                                                     "insertTranscription"),
                                         "completedNotice")]]
                /\ insertTextToEditor(transcriptionText(transcription))
    /\ rs' = cleanUp(rs)
    /\ UNCHANGED << settings, supported, cur, statusBar, timers,
                    nstarts, call, streamLive, recorder, emitted, vault >>

\* requestUrl rejects with error: transcribeAudio rethrows an Error carrying
\* errorMessage(error), processRecording shows it in a notice.  Then the
\* clean-up.
RequestRejected(i, error) ==
    /\ run[i].pc = "requesting"
    /\ run' = [run EXCEPT ![i].pc = "done", ![i].error = error,
                          ![i].cleared = rs[cur].audioChunks,
                          ![i].txNotice = errorMessage(error),
                          ![i].trace = Append(Append(@, "requestFailed"), "txFailedNotice")]
    /\ rs' = cleanUp(rs)
    /\ UNCHANGED << settings, supported, cur, statusBar, timers,
                    nstarts, call, streamLive, recorder, emitted, vault >>
    /\ UNCHANGED editorVars

\* the user activates another pane
SwitchLeaf(v) ==
    /\ v # activeLeaf
    /\ activeLeaf' = v
    /\ UNCHANGED << doc, cursor, base, chain, outcome, sessionVars >>

\* ------------------------------------------------------------ specification
Next ==
    \/ ToggleRecording
    \/ \E i \in Calls : GetUserMediaRejected(i)
    \/ \E i \in Calls, startOk \in BOOLEAN : GetUserMediaResolved(i, startOk)
    \/ TimerFired
    \/ \E i \in Calls, size \in {0, 1} : Fragment(i, size)
    \/ \E i \in Calls, size \in {0, 1} : RecorderStopTask(i, size)
    \/ \E i \in Calls, ok \in BOOLEAN : ArrayBufferSettled(i, ok)
    \/ \E i \in Calls, ok \in BOOLEAN : SaveFinished(i, ok)
    \/ \E i \in Calls : RequestSent(i)
    \/ \E i \in Calls : EncodingFailed(i)
    \/ \E i \in Calls, text \in ResponseTexts : RequestResolved(i, text)
    \/ \E i \in Calls, error \in SessionErrors : RequestRejected(i, error)
    \/ \E value \in Keys : SetApiKey(value)
    \/ \E value \in BOOLEAN : SetEnableTranscription(value)
    \/ \E v \in SessionViews : SwitchLeaf(v)

Spec == Init /\ [][Next]_vars

\* ------------------------------------------------- the request by itself
\* The catch block of transcribeAudio on every error of RequestErrors.
\* InitRequest is a state of Spec: recording 1 was stopped after one
\* fragment, createBinary rejected, transcription was enabled with a key and
\* the request is under way; the settings and the active leaf are whatever
\* the user made them since.
InitRequest ==
    /\ settings \in [openaiApiKey : Keys, enableTranscription : BOOLEAN]
    /\ supported = {"audio/webm;codecs=opus", "audio/webm", "audio/ogg;codecs=opus"}
    /\ cur = 1
    /\ rs = [o \in Objs |->
               IF o = 1
               THEN [RecordingState EXCEPT !.mediaRecorder = TRUE, !.stream = TRUE,
                                           !.audioChunks = << << 1, 1 >> >>,
                                           !.mimeType = selectedFormat]
               ELSE RecordingState]
    /\ statusBar = "idle"
    /\ timers = 0
    /\ nstarts = 1
    /\ call = [i \in Calls |->
                 IF i = 1 THEN [pc |-> "started", micRequests |-> 1, micNotices |-> 0]
                 ELSE NoCall]
    /\ streamLive = [i \in Calls |-> FALSE]
    /\ recorder = [i \in Calls |-> IF i = 1 THEN "inactive" ELSE "none"]
    /\ emitted = [i \in Calls |-> IF i = 1 THEN << << 1, 1 >> >> ELSE << >>]
    /\ run = [i \in Calls |->
                IF i = 1
                THEN [NoRun EXCEPT !.pc = "requesting", !.blob = << << 1, 1 >> >>,
                                   !.type = selectedFormat, !.reqKey = "sk-1",
                                   !.trace = << "createBinary", "saveFailed",
                                                "saveFailedNotice",
                                                "transcribingNotice", "requestUrl" >>]
                ELSE NoRun]
    /\ vault = {}
    /\ activeLeaf \in Views
    /\ doc = << << >> >>
    /\ cursor = [line |-> 0, ch |-> 0]
    /\ base = [doc |-> doc, cursor |-> cursor]
    /\ chain = << >>
    /\ outcome = "none"

NextRequest ==
    \/ \E i \in Calls, text \in ResponseTexts : RequestResolved(i, text)
    \/ \E i \in Calls, error \in RequestErrors : RequestRejected(i, error)

SpecRequest == InitRequest /\ [][NextRequest]_vars

\* a call of insertTextToEditor(text) by itself
InsertTextToEditor(text) ==
    /\ (trim(text) # << >> /\ activeLeaf = "markdown") => Len(chain) < MaxInserts
    /\ insertTextToEditor(text)
    /\ UNCHANGED sessionVars

\* An idle plugin, any of the documents, the cursor where the user placed it.
\* What the user types or where the user moves the cursor between two calls
\* is left out: SpecEditor follows calls with no such edit in between.
InitEditor ==
    /\ settings = [openaiApiKey |-> "", enableTranscription |-> FALSE]
    /\ supported = {}
    /\ cur = 0
    /\ rs = [o \in Objs |-> RecordingState]
    /\ statusBar = "idle"
    /\ timers = 0
    /\ nstarts = 0
    /\ call = [i \in Calls |-> NoCall]
    /\ streamLive = [i \in Calls |-> FALSE]
    /\ recorder = [i \in Calls |-> "none"]
    /\ emitted = [i \in Calls |-> << >>]
    /\ run = [i \in Calls |-> NoRun]
    /\ vault = {}
    /\ activeLeaf \in Views
    /\ doc \in InitDocs
    /\ cursor \in Positions(doc)
    /\ base = [doc |-> doc, cursor |-> cursor]
    /\ chain = << >>
    /\ outcome = "none"

NextEditor ==
    \/ \E text \in Texts : InsertTextToEditor(text)
    \/ \E v \in Views : SwitchLeaf(v)

SpecEditor == InitEditor /\ [][NextEditor]_vars

\* ------------------------------------------------------------------ claims
LiveStreams == {i \in Calls : streamLive[i]}
ActiveRecorders == {i \in Calls : recorder[i] = "recording"}

\* C1: at any time at most one microphone stream is live and at most one
\* recorder is started and not stopped.
C1_OneStreamOneRecorder ==
    /\ Cardinality(LiveStreams) <= 1
    /\ Cardinality(ActiveRecorders) <= 1

\* C2: every fragment in the buffer of a session was emitted by that
\* session's recorder, and until a clean-up has run the buffer of a session
\* holds exactly the fragments its recorder emitted, in arrival order.
C2_FragmentsInOwnBuffer ==
    /\ \A o \in Objs : \A k \in 1..Len(rs[o].audioChunks) :
          rs[o].audioChunks[k][1] = o
    /\ (\A j \in Calls : run[j].pc # "done") =>
          \A i \in Calls : rs[i].audioChunks = emitted[i]

\* C3: once the onstop of a recorder that emitted a non-empty fragment has
\* run, its processRecording run holds a blob made of exactly that recorder's
\* fragments, and a finished run went into saveAudioFile and called
\* createBinary no more than once.
C3_StoppedRecordingSaved ==
    \A i \in Calls :
       (run[i].pc # "none" /\ emitted[i] # << >>) =>
          /\ run[i].blob = emitted[i]
          /\ run[i].pc = "done" =>
                /\ ~Has(run[i].trace, "emptyNotice")
                /\ Count(run[i].trace, "createBinary") <= 1

\* C4: in every run the transcription request comes after the outcome of the
\* file save, and the audio link is inserted before the transcription text.
C4_SaveThenTranscribe ==
    \A i \in Calls :
       LET t == run[i].trace
       IN  /\ Has(t, "requestUrl") => (Has(t, "saved") \/ Has(t, "saveFailedNotice"))
           /\ Before(t, "saved", "requestUrl")
           /\ Before(t, "saveFailed", "requestUrl")
           /\ Before(t, "saveFailedNotice", "requestUrl")
           /\ Before(t, "createBinary", "requestUrl")
           /\ Before(t, "insertLink", "insertTranscription")
           /\ run[i].pc \in {"encoding", "requesting"} =>
                 (Has(t, "saved") \/ Has(t, "saveFailedNotice"))
           /\ Has(t, "createBinary") =>
                 (run[i].pc = "saving" <=> ~(Has(t, "saved") \/ Has(t, "saveFailed")))

C4_Witness ==
    \E i \in Calls :
       /\ run[i].pc = "done"
       /\ Has(run[i].trace, "insertLink")
       /\ Has(run[i].trace, "insertTranscription")

\* C5: every transcription request that was sent carries a non-empty key.
C5_RequestCarriesKey ==
    \A i \in Calls : Has(run[i].trace, "requestUrl") => run[i].reqKey # ""

\* C6: the clean-up of a finished run that found a non-empty buffer removed
\* exactly the fragments of that run's blob, and the buffer of the processed
\* session is empty.
C6_CleanUpRemovesConsumed ==
    \A i \in Calls :
       (run[i].pc = "done" /\ run[i].blob # << >>) =>
          /\ run[i].cleared = run[i].blob
          /\ rs[i].audioChunks = << >>

\* C7: getUserMedia is requested once per start, createBinary and requestUrl
\* at most once per run, and each failure of one of them is followed by
\* exactly one notice and no further attempt.
C7_NoRetries ==
    \A i \in Calls :
       LET t == run[i].trace
       IN  /\ call[i].micRequests <= 1
           /\ call[i].pc = "rejected" =>
                 (call[i].micRequests = 1 /\ call[i].micNotices = 1)
           /\ Count(t, "createBinary") <= 1
           /\ Count(t, "requestUrl") <= 1
           /\ Count(t, "saveFailedNotice") <= 1
           /\ Has(t, "saveFailed") => Count(t, "saveFailedNotice") = 1
           /\ Has(t, "saveFailedNotice") =>
                 Count(t, "createBinary") = Count(t, "saveFailed")
           /\ run[i].pc = "done" =>
                 Count(t, "txFailedNotice") >= Count(t, "requestFailed")
           /\ Count(t, "txFailedNotice") <= 1

C7_Witness ==
    \E i, j \in Calls :
       /\ call[i].pc = "rejected"
       /\ run[j].pc = "done"
       /\ Has(run[j].trace, "saveFailed")
       /\ Has(run[j].trace, "requestFailed")

FixedStatuses == {401, 403, 429}

\* C8 as stated: the notice of a failed transcription carries the message of
\* the error that the request raised.
C8_PassThrough ==
    \A i \in Calls :
       run[i].error # NoError => run[i].txNotice = run[i].error.message

\* C8 amended: the notice carries the message of the error, unless the error
\* has status 401, 429 or 403, which each have a fixed text, or has no
\* message, which gives 'Transcription failed'.
C8_PassThroughExceptTaxonomy ==
    \A i \in Calls :
       LET e == run[i].error
           n == run[i].txNotice
       IN  e # NoError =>
             /\ (e.status \notin FixedStatuses /\ e.message # "") => n = e.message
             /\ e.status = 401 => n = "Invalid API Key or unauthorized"
             /\ e.status = 429 =>
                   n = "API request rate limit exceeded, please try again later"
             /\ e.status = 403 =>
                   n = "API access denied, please check API Key permissions"
             /\ (e.status \notin FixedStatuses /\ e.message = "") =>
                   n = "Transcription failed"

C8_Witness ==
    \E i \in Calls :
       /\ run[i].pc = "done"
       /\ Has(run[i].trace, "requestFailed")
       /\ run[i].error = [status |-> NoStatus, message |-> "net::ERR_FAILED"]
       /\ run[i].txNotice = "net::ERR_FAILED"

RECURSIVE Flat(_)
\* the document as one text: its lines joined by line breaks
Flat(d) ==
    IF Len(d) = 1 THEN d[1]
    ELSE d[1] \o << NL >> \o Flat(Tail(d))

RECURSIVE Offset(_, _)
\* the number of characters of Flat(d) before position pos
Offset(d, pos) ==
    IF pos.line = 0 THEN pos.ch
    ELSE Len(d[1]) + 1 + Offset(Tail(d), [line |-> pos.line - 1, ch |-> pos.ch])

\* x is t without its leading and trailing white space
IsTrimOf(x, t) ==
    \E i \in 1..(Len(t) + 1), j \in 0..Len(t) :
       /\ x = SubSeq(t, i, j)
       /\ \A k \in 1..Len(t) : (k < i \/ k > j) => IsSpace(t[k])
       /\ x # << >> => (~IsSpace(x[1]) /\ ~IsSpace(x[Len(x)]))

Subtexts(t) == { SubSeq(t, i, j) : i \in 1..(Len(t) + 1), j \in 0..Len(t) }

RECURSIVE InsertedText(_)
\* what a sequence of inserted texts adds: each text trimmed, then a line break
InsertedText(texts) ==
    IF texts = << >> THEN << >>
    ELSE (CHOOSE x \in Subtexts(Head(texts)) : IsTrimOf(x, Head(texts)))
         \o << NL >> \o InsertedText(Tail(texts))

\* the save step of the run with trace t failed
FailedSave(t) == Has(t, "saveFailedNotice")

\* when the save step of run i ends, transcribeAudio is entered exactly when
\* transcription is enabled and the key is not empty
EntryBySettings(i) ==
    (run[i].pc = "saving" /\ run'[i].pc # "saving") =>
       (run'[i].pc = "encoding" <=>
           (settings.enableTranscription /\ settings.openaiApiKey # ""))

\* run i ends in this step, after a failed save and with transcription wanted
EndsAfterFailedSave(i) ==
    /\ run[i].pc # "done"
    /\ run'[i].pc = "done"
    /\ FailedSave(run'[i].trace)
    /\ Has(run'[i].trace, "transcribingNotice")

\* a transcription arrives in this step for run i, whose save had failed
TranscribedAfterFailedSave(i) ==
    /\ FailedSave(run[i].trace)
    /\ ~Has(run[i].trace, "completedNotice")
    /\ Has(run'[i].trace, "completedNotice")

\* this step puts the heading, a transcription without surrounding white
\* space and a line break into the document at the cursor
TranscriptionInserted ==
    \E x \in ResponseTexts : \E t \in Subtexts(x) :
       /\ t # << >>
       /\ IsTrimOf(t, x)
       /\ LET f == Flat(doc)
              off == Offset(doc, cursor)
          IN  Flat(doc') = SubSeq(f, 1, off) \o << "T", NL >> \o t \o << NL >>
                             \o SubSeq(f, off + 1, Len(f))

\* the step in which the transcription of run i fails leaves the files, the
\* document with the inserted link and the other runs as they are
FailureLeavesFileAndLink(i) ==
    (Has(run'[i].trace, "txFailedNotice") /\ ~Has(run[i].trace, "txFailedNotice")) =>
       /\ vault' = vault
       /\ doc' = doc
       /\ cursor' = cursor
       /\ Has(run[i].trace, "insertLink") => Has(run'[i].trace, "insertLink")
       /\ \A j \in Calls \ {i} : run'[j] = run[j]

\* C9 as stated: whether transcribeAudio is entered depends on the settings
\* only; a run whose save failed and whose transcription was wanted has made
\* the request when it ends, and a transcription that arrives is inserted
\* into the document; a failing transcription leaves file and link in place.
C9_RequestMadeAndInserted ==
    [][ \A i \in Calls : run'[i] # run[i] =>
          /\ EntryBySettings(i)
          /\ EndsAfterFailedSave(i) => Has(run'[i].trace, "requestUrl")
          /\ TranscribedAfterFailedSave(i) =>
                (Has(run'[i].trace, "insertTranscription") /\ TranscriptionInserted)
          /\ FailureLeavesFileAndLink(i)
      ]_vars

\* C9 amended: whether transcribeAudio is entered depends on the settings
\* only; a run whose save failed and whose transcription was wanted has made
\* the request when it ends, unless the recording could not be read for the
\* request, which ends the run with a notice carrying that error's message
\* and nothing inserted; a transcription that arrives is inserted into the
\* document when a Markdown editor is active, and otherwise a notice is shown
\* and the document stays as it is; a failing transcription leaves file and
\* link in place.
C9_TranscriptionIndependentOfSave ==
    [][ \A i \in Calls : run'[i] # run[i] =>
          /\ EntryBySettings(i)
          /\ EndsAfterFailedSave(i) =>
                \/ Has(run'[i].trace, "requestUrl")
                \/ /\ run[i].pc = "encoding"
                   /\ run'[i].txNotice = BlobError.message
                   /\ Count(run'[i].trace, "txFailedNotice") = 1
                   /\ doc' = doc
          /\ (run[i].pc = "encoding" /\ run'[i].pc # "encoding") =>
                \/ run'[i].pc = "requesting" /\ Has(run'[i].trace, "requestUrl")
                \/ run'[i].pc = "done" /\ run'[i].txNotice = BlobError.message
          /\ TranscribedAfterFailedSave(i) =>
                IF activeLeaf = "markdown"
                THEN /\ Has(run'[i].trace, "insertTranscription")
                     /\ TranscriptionInserted
                ELSE /\ ~Has(run'[i].trace, "insertTranscription")
                     /\ Count(run'[i].trace, "insertRefusedNotice")
                           = Count(run[i].trace, "insertRefusedNotice") + 1
                     /\ doc' = doc
                     /\ cursor' = cursor
          /\ FailureLeavesFileAndLink(i)
      ]_vars

\* a transcription inserted after a failed save, and a failed transcription
\* next to a saved file whose link is in the document
C9_Witness ==
    \E i, j \in Calls :
       /\ Has(run[i].trace, "saveFailed")
       /\ Has(run[i].trace, "insertTranscription")
       /\ j \in vault
       /\ Has(run[j].trace, "insertLink")
       /\ Has(run[j].trace, "txFailedNotice")
       /\ Len(chain) = 2
       /\ doc # << << >> >>

\* C10: the status bar shows the recording label exactly when the recording
\* flag of this.recordingState is set, and the idle label exactly when it is
\* clear.
C10_LabelMatchesFlag ==
    /\ statusBar = "rec" <=> rs[cur].isRecording
    /\ statusBar = "idle" <=> ~rs[cur].isRecording

FailedStarts == {"rejected", "ctorThrew", "startThrew"}

\* C12: in the step in which a startRecording call ends in its catch block
\* (getUserMedia rejected, the MediaRecorder constructor or start threw), the
\* recording flag is clear afterwards and the stream that call acquired is
\* not live.
C12_FailedStartLeavesIdle ==
    [][ \A i \in Calls :
          (call[i].pc = "awaitingMedia" /\ call'[i].pc \in FailedStarts) =>
             /\ ~rs'[cur'].isRecording
             /\ ~streamLive'[i]
      ]_vars

\* C11: with no user edit in between, the document is the document before
\* the first call with the texts of the effective insertTextToEditor calls,
\* each trimmed and followed by one line break, put in at that cursor in call
\* order; after an insertion the cursor is at column 0 of the line directly
\* after the inserted text; calls with blank text, without active leaf, on a
\* view that is not Markdown or without editor change nothing.
C11_InsertAtCursorInOrder ==
    LET f0 == Flat(base.doc)
        off == Offset(base.doc, base.cursor)
        ins == InsertedText(chain)
    IN  /\ Flat(doc) = SubSeq(f0, 1, off) \o ins \o SubSeq(f0, off + 1, Len(f0))
        /\ \A l \in 1..Len(doc) : \A k \in 1..Len(doc[l]) : doc[l][k] # NL
        /\ chain = << >> => (doc = base.doc /\ cursor = base.cursor)
        /\ chain # << >> =>
              /\ cursor.ch = 0
              /\ cursor.line = base.cursor.line + Count(ins, NL)
              /\ Offset(doc, cursor) = off + Len(ins)

\* two consecutive insertions in the middle of a line, the first of several
\* lines, followed by a call that was refused
C11_Witness ==
    /\ Len(chain) = 2
    /\ chain[1] = << "a", NL, "b", NL, NL >>
    /\ chain[2] = << " ", "a", " " >>
    /\ base.doc = << << "x", "y" >> >>
    /\ base.cursor = [line |-> 0, ch |-> 1]
    /\ outcome = "refusedNotice"
    /\ doc = << << "x", "a" >>, << "b" >>, << "a" >>, << "y" >> >>
    /\ cursor = [line |-> 3, ch |-> 0]
====
